---- MODULE Spec2Model ----
(***************************************************************************)
(* Model of ts-expose-status-plugin: the language-service plugin           *)
(* (src/src/index.ts: ProjectChecker, MultiProjectChecker, setupIPC, init) *)
(* and its client (src/src/TSStatusClient.ts: connect, withClient, call).  *)
(*                                                                         *)
(* JavaScript values are encoded as follows.                               *)
(*   - a nullable value is a sequence: <<>> is null/undefined, <<v>> is v; *)
(*   - a string built by a template literal is the sequence of its parts;  *)
(*   - a value sent over the channel is a record tagged with its typeof    *)
(*     class: kind "array" (items) or kind "string" (text);                *)
(*   - a call that may throw yields a completion record (threw, value,     *)
(*     error).                                                             *)
(***************************************************************************)
EXTENDS Integers, Sequences, FiniteSets, TLC

(* ---------------------------- bounds ----------------------------------- *)

\* Calls issued on clients, over all clients, in one behaviour.
MaxCalls == 2
\* Number of init() calls (plugin activations, one per project) in one
\* behaviour; the host calls create() once on the module each init() returns.
MaxInits == 2
\* Call frames arriving at the server in one behaviour of the host alone.
MaxFrames == 2
\* Requests of the public methods arriving at the server in one behaviour of
\* the registry behind the server.
MaxQueries == 1

(* ---------------------------- universe --------------------------------- *)

Clients == {"c1", "c2"}

\* The projects the host may activate the plugin for.  "pA" and "pB" are
\* live projects that share a file, "pGone" is a project whose program is
\* unavailable.
Projects == {"pA", "pB", "pGone"}

Null == <<>>
Some(v) == <<v>>

(* ---------------------------- Protocol --------------------------------- *)

CALL_EVENT == "call"
RESPOND_EVENT == "respond"

StringValue(parts) == [kind |-> "string", items |-> <<>>, text |-> parts]
ArrayValue(items) == [kind |-> "array", items |-> items, text |-> <<>>]

\* The data of a 'call' frame: an object with a method and, possibly,
\* filenames, or no object at all (null, or a frame without data).
Payload(method, filenames) ==
    [kind |-> "object", method |-> method, filenames |-> filenames]
NullData == [kind |-> "null", method |-> "", filenames |-> <<>>]

Ok(v) == [threw |-> FALSE, value |-> v, error |-> Null]
Throw(stack) == [threw |-> TRUE, value |-> Null, error |-> Some(stack)]

(* ------------------- the analysis engine (external) -------------------- *)

\* path.resolve: an absolute path is kept, a relative one is put under the
\* working directory.
resolve(fileName) ==
    CASE fileName = "rel.ts" -> "/cwd/rel.ts"
      [] OTHER -> fileName

\* ts.flattenDiagnosticMessageText(messageText, '\n') on a chain of
\* messages: the first message, then each next one on a new line, indented
\* by its depth.
Indentation(indent) == [i \in 1..indent |-> "  "]

RECURSIVE flattenChain(_, _)
flattenChain(chain, indent) ==
    IF chain = <<>> THEN <<>>
    ELSE (IF indent > 0 THEN <<"\n">> \o Indentation(indent) ELSE <<>>)
         \o <<Head(chain)>> \o flattenChain(Tail(chain), indent + 1)

flattenDiagnosticMessageText(messageText) == flattenChain(messageText, 0)

RawDiagnostic(file, start, length, messageText, code) ==
    [file |-> file, start |-> start, length |-> length,
     messageText |-> messageText, code |-> code]

\* program.getSemanticDiagnostics() of each project.  The engine gives an
\* issue its location as a whole: a file with a start and a length, or none
\* of the three (pA's last issue).
SemanticDiagnosticsOf(p) ==
    CASE p = "pA" ->
           << RawDiagnostic(Some("/a.ts"), Some(3), Some(4), <<"TS2322">>, 2322),
              RawDiagnostic(Some("/shared.ts"), Some(0), Some(0),
                            <<"TS2345", "detail">>, 2345),
              RawDiagnostic(Null, Null, Null, <<"TS2318">>, 2318) >>
      [] p = "pB" ->
           << RawDiagnostic(Some("/shared.ts"), Some(7), Some(3), <<"TS7006">>, 7006),
              RawDiagnostic(Some("rel.ts"), Some(1), Some(2), <<"TS2304">>, 2304) >>
      [] OTHER -> <<>>

\* program.getSyntacticDiagnostics() of each project.
SyntacticDiagnosticsOf(p) ==
    CASE p = "pB" ->
           << RawDiagnostic(Some("/shared.ts"), Some(5), Some(1), <<"TS1005">>, 1005) >>
      [] OTHER -> <<>>

\* The source files of each project's program.
SourceFilesOf(p) ==
    CASE p = "pA" -> {"/a.ts", "/shared.ts"}
      [] p = "pB" -> {"/shared.ts", "/cwd/rel.ts"}
      [] OTHER -> {}

\* languageService.getProgram(): undefined while the project has no program.
HasProgram(p) == p # "pGone"

\* The failure of the engine's per-file queries for a file that is not in
\* the project.
EngineStack(p, filename) == <<"Error: Could not find source file: ", filename, " in ", p>>

OfFile(diags, filename) ==
    SelectSeq(diags, LAMBDA d : d.file = Some(filename))

(* ---------------------------- ProjectChecker --------------------------- *)

\* A normalizer that takes the length for the end.
convertEndIsLength(diagnostic) ==
    [filePath |-> IF diagnostic.file # Null
                  THEN Some(resolve(diagnostic.file[1])) ELSE Null,
     start |-> IF diagnostic.start # Null THEN diagnostic.start ELSE Null,
     end |-> IF diagnostic.start # Null /\ diagnostic.length # Null
             THEN diagnostic.length ELSE Null,
     message |-> flattenDiagnosticMessageText(diagnostic.messageText),
     code |-> diagnostic.code]

\* A normalizer that puts offset 0 for a start or an end the issue lacks.
convertOffsetsDefaultZero(diagnostic) ==
    [filePath |-> IF diagnostic.file # Null
                  THEN Some(resolve(diagnostic.file[1])) ELSE Null,
     start |-> IF diagnostic.start # Null THEN diagnostic.start ELSE Some(0),
     end |-> IF diagnostic.start # Null /\ diagnostic.length # Null
             THEN Some(diagnostic.start[1] + diagnostic.length[1]) ELSE Some(0),
     message |-> flattenDiagnosticMessageText(diagnostic.messageText),
     code |-> diagnostic.code]

convertToSimpleDiagnostic(diagnostic) ==
    [filePath |-> IF diagnostic.file # Null
                  THEN Some(resolve(diagnostic.file[1])) ELSE Null,
     start |-> IF diagnostic.start # Null THEN diagnostic.start ELSE Null,
     end |-> IF diagnostic.start # Null /\ diagnostic.length # Null
             THEN Some(diagnostic.start[1] + diagnostic.length[1]) ELSE Null,
     message |-> flattenDiagnosticMessageText(diagnostic.messageText),
     code |-> diagnostic.code]

\* diagnostics.map((diagnostic) => this.convertToSimpleDiagnostic(diagnostic))
ConvertAll(diagnostics) ==
    [i \in 1..Len(diagnostics) |-> convertToSimpleDiagnostic(diagnostics[i])]

\* ProjectChecker.getAllErrors(), as a completion.
CheckerGetAllErrors(p) ==
    IF ~HasProgram(p) THEN Ok(<<>>)
    ELSE Ok(ConvertAll(SemanticDiagnosticsOf(p) \o SyntacticDiagnosticsOf(p)))

\* ProjectChecker.getErrorsForFile(filename), as a completion.
CheckerGetErrorsForFile(p, filename) ==
    IF ~HasProgram(p) \/ filename \notin SourceFilesOf(p)
    THEN Throw(EngineStack(p, filename))
    ELSE Ok(ConvertAll(OfFile(SemanticDiagnosticsOf(p), filename)
                         \o OfFile(SyntacticDiagnosticsOf(p), filename)))

\* A checker that claims every file.
fileInProjectAlways(p, filename) == TRUE

\* ProjectChecker.fileInProject(filename).
fileInProject(p, filename) ==
    HasProgram(p) /\ filename \in SourceFilesOf(p)

(* ------------------------- MultiProjectChecker ------------------------- *)

\* flatMap of a throwing operation over a sequence: the concatenation of the
\* results, or the first failure.
RECURSIVE FlatMapCompletions(_)
FlatMapCompletions(cs) ==
    IF cs = <<>> THEN Ok(<<>>)
    ELSE IF Head(cs).threw THEN Head(cs)
    ELSE LET rest == FlatMapCompletions(Tail(cs))
         IN IF rest.threw THEN rest ELSE Ok(Head(cs).value \o rest.value)

\* A registry that puts a new checker first.
registerProjectFirst(checkers, p) == <<p>> \o checkers

\* MultiProjectChecker.registerProject(ts, info):
\* this.projectCheckers.push(new ProjectChecker(ts, info)).
registerProject(checkers, p) == Append(checkers, p)

\* The checkers of a registry without the repeated registrations.
RECURSIVE KeepFirsts(_, _)
KeepFirsts(checkers, n) ==
    IF n = 0 THEN <<>>
    ELSE IF \E j \in 1..(n - 1) : checkers[j] = checkers[n]
         THEN KeepFirsts(checkers, n - 1)
         ELSE Append(KeepFirsts(checkers, n - 1), checkers[n])

\* A registry that reports a project registered twice once.
getAllErrorsDeduplicated(checkers) ==
    LET firsts == KeepFirsts(checkers, Len(checkers))
    IN FlatMapCompletions([i \in 1..Len(firsts) |-> CheckerGetAllErrors(firsts[i])])

\* MultiProjectChecker.getAllErrors().
getAllErrors(checkers) ==
    FlatMapCompletions([i \in 1..Len(checkers) |-> CheckerGetAllErrors(checkers[i])])

NotFoundDiagnostic(filename) ==
    [filePath |-> Some(filename), start |-> Null, end |-> Null,
     message |-> <<"File ", filename,
                   " was not found in any TypeScript project. ",
                   "Make sure the appropriate TypeScript project(s) are open in your editor.">>,
     code |-> 20000]

\* A registry that reports nothing for a file no project has.
ErrorsForOneFileNoSynthesis(checkers, filename) ==
    LET matching == SelectSeq(checkers, LAMBDA p : fileInProject(p, filename))
    IN FlatMapCompletions(
         [i \in 1..Len(matching) |-> CheckerGetErrorsForFile(matching[i], filename)])

\* A registry that asks only the first project that has the file.
ErrorsForOneFileFirstMatch(checkers, filename) ==
    LET matching == SelectSeq(checkers, LAMBDA p : fileInProject(p, filename))
    IN IF matching = <<>> THEN Ok(<<NotFoundDiagnostic(filename)>>)
       ELSE CheckerGetErrorsForFile(matching[1], filename)

\* The inner loop over the project checkers for one filename.
ErrorsForOneFile(checkers, filename) ==
    LET matching == SelectSeq(checkers, LAMBDA p : fileInProject(p, filename))
    IN IF matching = <<>> THEN Ok(<<NotFoundDiagnostic(filename)>>)
       ELSE FlatMapCompletions(
              [i \in 1..Len(matching) |-> CheckerGetErrorsForFile(matching[i], filename)])

\* A registry that, when a file of the batch is in no project, reports only
\* the files that are in no project.
getErrorsForFilesNotFoundFirst(checkers, filenames) ==
    IF filenames = Null
    THEN Throw(<<"TypeError: filenames is not iterable",
                 "\n    at MultiProjectChecker.getErrorsForFiles">>)
    ELSE LET missing == SelectSeq(filenames[1],
                          LAMBDA f : \A i \in 1..Len(checkers) : ~fileInProject(checkers[i], f))
             reported == IF missing = <<>> THEN filenames[1] ELSE missing
         IN FlatMapCompletions(
              [i \in 1..Len(reported) |-> ErrorsForOneFile(checkers, reported[i])])

\* MultiProjectChecker.getErrorsForFiles(filenames); iterating an undefined
\* filenames raises a TypeError.
getErrorsForFiles(checkers, filenames) ==
    IF filenames = Null
    THEN Throw(<<"TypeError: filenames is not iterable",
                 "\n    at MultiProjectChecker.getErrorsForFiles">>)
    ELSE FlatMapCompletions(
           [i \in 1..Len(filenames[1]) |-> ErrorsForOneFile(checkers, filenames[1][i])])

(* ------------------------- the request handler ------------------------- *)

\* The body of the try block of the CALL_EVENT handler.
Dispatch(data, checkers) ==
    IF data.method = "getAllErrors" THEN
        LET r == getAllErrors(checkers)
        IN IF r.threw THEN r ELSE Ok(ArrayValue(r.value))
    ELSE IF data.method = "getErrorsForFiles" THEN
        LET r == getErrorsForFiles(checkers, data.filenames)
        IN IF r.threw THEN r ELSE Ok(ArrayValue(r.value))
    ELSE Ok(StringValue(<<"Unexpected method: ", data.method>>))

\* log(`Received method call: ${data.method}`), the first statement of the
\* CALL_EVENT handler, before its try block: the argument is evaluated
\* whether or not logging is enabled, and reading the method of data that
\* is null or undefined raises a TypeError.
LogReceived(data) ==
    IF data.kind = "null"
    THEN Throw(<<"TypeError: Cannot read properties of null (reading 'method')">>)
    ELSE Ok(<<"Received method call: ", data.method>>)

\* A CALL_EVENT handler that lets a failure of the dispatched operation
\* escape instead of answering.
CallHandlerNoCatch(data, checkers) ==
    IF LogReceived(data).threw THEN [escaped |-> TRUE, response |-> Null]
    ELSE LET r == Dispatch(data, checkers)
         IN IF r.threw THEN [escaped |-> TRUE, response |-> Null]
            ELSE [escaped |-> FALSE, response |-> Some(r.value)]

\* The CALL_EVENT handler up to the emit: the log statement, whose failure
\* leaves the handler before anything is emitted; then try the dispatch,
\* catch any failure and answer with its stack.
CallHandler(data, checkers) ==
    IF LogReceived(data).threw THEN [escaped |-> TRUE, response |-> Null]
    ELSE LET r == Dispatch(data, checkers)
         IN IF r.threw
            THEN [escaped |-> FALSE,
                  response |-> Some(StringValue(r.error[1] \o <<"\n\n">>))]
            ELSE [escaped |-> FALSE, response |-> Some(r.value)]

\* A server that answers every connection instead of the requesting one.
EmitTargetsBroadcast(socket) == Clients

\* ipc.server.emit(socket, RESPOND_EVENT, response): the connections the
\* response frame is written to.
EmitTargets(socket) == {socket}

(* ------------------------------ state ---------------------------------- *)

VARIABLES
    \* host process (src/src/index.ts)
    isIPCSetUp,        \* the module-level flag
    projectCheckers,   \* checker.projectCheckers: the projects, in registration order
    servers,           \* number of IPC servers started (runs of setupIPC)
    serverListening,   \* the started server has begun to listen: the callback
                       \* given to ipc.serve has run and registered the
                       \* CALL_EVENT handler
    inits,             \* number of init() calls so far
    hostFailures,      \* failures that escaped the CALL_EVENT handler
    served,            \* per connection: the requests handled, each with its response
    \* the channel, per connection
    c2s,               \* call frames written by the client, not yet handled
    s2c,               \* respond frames written by the server, not yet received
    conn,              \* the socket: "none", "opening", "connected", "closed"
    \* client process (src/src/TSStatusClient.ts), one withClient run per client
    wcPc,              \* position of the withClient run: "idle", "connecting",
                       \* "onSuccess", "onError", "settled"
    connPromise,       \* the promise of connect(): "pending", "resolved", "rejected"
    responseCallback,  \* 0 is null; k is the resolver of the promise of call k
    calls,             \* the calls made on the client, in order
    disconnects,       \* number of ipc.disconnect(SERVER_ID) calls
    handlerFailures,   \* RESPOND_EVENT handler runs that threw
    onSuccessOutcome,  \* Null, or how the promise of onSuccess settled
    onErrorOutcome,    \* Null, or how the promise of onError settled
    wcResult           \* Null, or how the promise of withClient settled

hostVars == <<isIPCSetUp, projectCheckers, servers, serverListening, inits,
              hostFailures, served>>
channelVars == <<c2s, s2c, conn>>
clientVars == <<wcPc, connPromise, responseCallback, calls, disconnects,
                handlerFailures, onSuccessOutcome, onErrorOutcome, wcResult>>
vars == <<hostVars, channelVars, clientVars>>

Undefined == [kind |-> "undefined", items |-> <<>>, text |-> <<>>]
ErrorValue(message) == [kind |-> "error", items |-> <<>>, text |-> message]

Fulfilled(v) == [kind |-> "fulfilled", value |-> v]
Rejected(e) == [kind |-> "rejected", value |-> e]

\* The payloads of the two public methods.
getAllErrorsPayload == Payload("getAllErrors", Null)
getErrorsForFilesPayload(filenames) ==
    Payload("getErrorsForFiles",
            Some([i \in 1..Len(filenames) |-> resolve(filenames[i])]))

\* What callers pass to getErrorsForFiles.
FileLists == { <<"/shared.ts">> }

\* call(payload: any): the payloads of the public methods, a method the
\* server does not know, and a getErrorsForFiles request without filenames.
Payloads ==
    {getAllErrorsPayload}
      \cup {getErrorsForFilesPayload(fs) : fs \in FileLists}
      \cup {Payload("getEverything", Null), Payload("getErrorsForFiles", Null)}

TotalCalls == Len(calls["c1"]) + Len(calls["c2"])

\* The server accepts connections and handles 'call' frames.
Listening == serverListening

Init ==
    /\ isIPCSetUp = FALSE
    /\ projectCheckers = <<>>
    /\ servers = 0
    /\ serverListening = FALSE
    /\ inits = 0
    /\ hostFailures = 0
    /\ served = [c \in Clients |-> <<>>]
    /\ c2s = [c \in Clients |-> <<>>]
    /\ s2c = [c \in Clients |-> <<>>]
    /\ conn = [c \in Clients |-> "none"]
    /\ wcPc = [c \in Clients |-> "idle"]
    /\ connPromise = [c \in Clients |-> "pending"]
    /\ responseCallback = [c \in Clients |-> 0]
    /\ calls = [c \in Clients |-> <<>>]
    /\ disconnects = [c \in Clients |-> 0]
    /\ handlerFailures = [c \in Clients |-> 0]
    /\ onSuccessOutcome = [c \in Clients |-> Null]
    /\ onErrorOutcome = [c \in Clients |-> Null]
    /\ wcResult = [c \in Clients |-> Null]

(* ------------------------------ host ----------------------------------- *)

\* An init() that sets up IPC on every call.
SetupNeededAlways(flag) == TRUE

\* An init() that never sets up IPC.
SetupNeededNever(flag) == FALSE

\* The guard of init(): if (!isIPCSetUp).
SetupNeeded(flag) == ~flag

\* init(modules): set up IPC unless already done; returns the plugin module.
\* setupIPC() hands the callback to ipc.serve and calls ipc.server.start(),
\* which begins the start of the server and returns.
PluginInit ==
    /\ inits < MaxInits
    /\ inits' = inits + 1
    /\ IF SetupNeeded(isIPCSetUp)
       THEN servers' = servers + 1
       ELSE servers' = servers
    /\ isIPCSetUp' = (IF SetupNeeded(isIPCSetUp) THEN TRUE ELSE isIPCSetUp)
    /\ UNCHANGED <<projectCheckers, serverListening, hostFailures, served,
                   channelVars, clientVars>>

\* The started server begins to listen, in a later turn of the host's event
\* loop: the callback given to ipc.serve runs and registers the CALL_EVENT
\* handler.  (A server whose start fails never takes this step.)
ServerStarted ==
    /\ servers > 0
    /\ ~serverListening
    /\ serverListening' = TRUE
    /\ UNCHANGED <<isIPCSetUp, projectCheckers, servers, inits, hostFailures,
                   served, channelVars, clientVars>>

\* create(info) of a plugin module returned by init: registerProject.
PluginCreate(p) ==
    /\ Len(projectCheckers) < inits
    /\ projectCheckers' = registerProject(projectCheckers, p)
    /\ UNCHANGED <<isIPCSetUp, servers, serverListening, inits, hostFailures,
                   served, channelVars, clientVars>>

\* The CALL_EVENT handler of the server, run to completion for the oldest
\* unhandled frame of one connection.
ServerHandle(socket) ==
    /\ Listening
    /\ c2s[socket] # <<>>
    /\ LET data == Head(c2s[socket])
           h == CallHandler(data, projectCheckers)
       IN /\ c2s' = [c2s EXCEPT ![socket] = Tail(@)]
          /\ IF h.escaped
             THEN /\ hostFailures' = hostFailures + 1
                  /\ UNCHANGED <<s2c, served>>
             ELSE /\ s2c' = [c \in Clients |->
                               IF c \in EmitTargets(socket)
                               THEN Append(s2c[c], h.response[1]) ELSE s2c[c]]
                  /\ served' = [served EXCEPT ![socket] =
                                  Append(@, [request |-> data, response |-> h.response[1]])]
                  /\ UNCHANGED hostFailures
    /\ UNCHANGED <<isIPCSetUp, projectCheckers, servers, serverListening, inits,
                   conn, clientVars>>

(* ------------------------------ client --------------------------------- *)
(* An action is one run of the event loop on the client process: an event  *)
(* handler together with the continuations of the promises it settles.     *)

\* withClient up to its first await: connect() opens the connection.
WithClientStart(c) ==
    /\ wcPc[c] = "idle"
    /\ wcPc' = [wcPc EXCEPT ![c] = "connecting"]
    /\ conn' = [conn EXCEPT ![c] = "opening"]
    /\ UNCHANGED <<hostVars, c2s, s2c, connPromise, responseCallback, calls,
                   disconnects, handlerFailures, onSuccessOutcome, onErrorOutcome,
                   wcResult>>

\* The socket's 'connect' event: the handler registered by connect()
\* constructs the client (whose slot starts null) and resolves the promise;
\* withClient resumes from await this.connect() and invokes onSuccess.
SocketConnect(c) ==
    /\ conn[c] = "opening"
    /\ Listening
    /\ conn' = [conn EXCEPT ![c] = "connected"]
    /\ connPromise' = [connPromise EXCEPT ![c] = "resolved"]
    /\ responseCallback' = [responseCallback EXCEPT ![c] = 0]
    /\ wcPc' = [wcPc EXCEPT ![c] = "onSuccess"]
    /\ UNCHANGED <<hostVars, c2s, s2c, calls, disconnects, handlerFailures,
                   onSuccessOutcome, onErrorOutcome, wcResult>>

\* The socket's 'error' event (no listener, or the connection is lost; with
\* maxRetries = 0 there is no reconnect).  The handler registered by
\* connect() rejects the promise: while it is pending, withClient resumes in
\* its catch block and invokes onError; once it is settled, nothing happens.
SocketError(c) ==
    /\ conn[c] \in {"opening", "connected"}
    /\ conn' = [conn EXCEPT ![c] = "closed"]
    /\ IF connPromise[c] = "pending"
       THEN /\ connPromise' = [connPromise EXCEPT ![c] = "rejected"]
            /\ wcPc' = [wcPc EXCEPT ![c] = "onError"]
       ELSE UNCHANGED <<connPromise, wcPc>>
    /\ UNCHANGED <<hostVars, c2s, s2c, responseCallback, calls, disconnects,
                   handlerFailures, onSuccessOutcome, onErrorOutcome, wcResult>>

\* A call() that does not check the slot.
CallAllowedAlways(slot) == TRUE

\* The guard of call(): the slot must be unset.
CallAllowed(slot) == slot = 0

MisuseError ==
    [kind |-> "error", items |-> <<>>,
     text |-> <<"Expected responseCallback to be unset. May only make one concurrent call.">>]

\* A call, as the caller sees it: the payload, whether a frame was emitted
\* for it, and the state of its promise ("awaiting", "returned", "raised")
\* with the value or failure it completed with.
CallRecord(payload, sent, state, result) ==
    [payload |-> payload, sent |-> sent, state |-> state, result |-> result]

\* call(payload) up to its await, made by onSuccess: either the misuse
\* failure, or the slot is set and the frame is emitted (a frame written to
\* a socket that is no longer connected is lost).
ClientCall(c, payload) ==
    /\ wcPc[c] = "onSuccess"
    /\ TotalCalls < MaxCalls
    /\ IF CallAllowed(responseCallback[c])
       THEN /\ responseCallback' = [responseCallback EXCEPT ![c] = Len(calls[c]) + 1]
            /\ calls' = [calls EXCEPT ![c] =
                           Append(@, CallRecord(payload, TRUE, "awaiting", Undefined))]
            /\ c2s' = [c2s EXCEPT ![c] =
                         IF conn[c] = "connected" THEN Append(@, payload) ELSE @]
       ELSE /\ calls' = [calls EXCEPT ![c] =
                           Append(@, CallRecord(payload, FALSE, "raised", MisuseError))]
            /\ UNCHANGED <<responseCallback, c2s>>
    /\ UNCHANGED <<hostVars, s2c, conn, wcPc, connPromise, disconnects,
                   handlerFailures, onSuccessOutcome, onErrorOutcome, wcResult>>

\* A call() that takes every response for a result.
IsFailureResponseNever(response) == FALSE

\* typeof response === 'string'
IsFailureResponse(response) == response.kind = "string"

\* new Error(`Error from TS language service: ${response}`)
CallError(response) ==
    [kind |-> "error", items |-> <<>>,
     text |-> <<"Error from TS language service: ">> \o response.text]

\* call() from its await on: the response is raised or returned.
CallCompletion(record, response) ==
    IF IsFailureResponse(response)
    THEN CallRecord(record.payload, record.sent, "raised", CallError(response))
    ELSE CallRecord(record.payload, record.sent, "returned", response)

\* A RESPOND_EVENT handler that leaves the slot set.
SlotKept(slot) == slot

\* this.responseCallback = null
SlotAfterResponse(slot) == 0

\* The RESPOND_EVENT handler registered by the constructor: it throws when
\* the slot is null, else clears the slot and resolves the promise of the
\* pending call, which resumes.
ClientRespond(c) ==
    /\ conn[c] = "connected"
    /\ s2c[c] # <<>>
    /\ s2c' = [s2c EXCEPT ![c] = Tail(@)]
    /\ IF responseCallback[c] = 0
       THEN /\ handlerFailures' = [handlerFailures EXCEPT ![c] = @ + 1]
            /\ UNCHANGED <<responseCallback, calls>>
       ELSE /\ responseCallback' = [responseCallback EXCEPT ![c] = SlotAfterResponse(@)]
            /\ calls' = [calls EXCEPT ![c][responseCallback[c]] =
                           CallCompletion(@, Head(s2c[c]))]
            /\ UNCHANGED handlerFailures
    /\ UNCHANGED <<hostVars, c2s, conn, wcPc, connPromise, disconnects,
                   onSuccessOutcome, onErrorOutcome, wcResult>>

\* How the caller's onSuccess may settle: with its own value or failure, or
\* with the result or failure of one of the calls it made.
OnSuccessOutcomes(c) ==
    {Fulfilled(Undefined), Rejected(ErrorValue(<<"onSuccess failed">>))}
      \cup {Fulfilled(calls[c][k].result) :
              k \in {j \in 1..Len(calls[c]) : calls[c][j].state = "returned"}}
      \cup {Rejected(calls[c][k].result) :
              k \in {j \in 1..Len(calls[c]) : calls[c][j].state = "raised"}}

\* A withClient that disconnects only after a successful onSuccess.
DisconnectsAfterSuccessOnly(outcome) == outcome.kind = "fulfilled"

\* try { result = await onSuccess(client) } finally { client.disconnect() }:
\* whether disconnect runs after this outcome of onSuccess.
DisconnectsAfter(outcome) == TRUE

\* A withClient whose catch block also covers onSuccess.
OnErrorCatchesAll(outcome) == outcome.kind = "rejected"

\* Whether the catch block that invokes onError covers this outcome of
\* onSuccess: its try block holds only the connect.
OnErrorCatches(outcome) == FALSE

\* The promise of onSuccess settles and withClient resumes from its await:
\* the finally block disconnects, then the result is returned or the failure
\* propagates.
OnSuccessSettle(c, outcome) ==
    /\ wcPc[c] = "onSuccess"
    /\ outcome \in OnSuccessOutcomes(c)
    /\ onSuccessOutcome' = [onSuccessOutcome EXCEPT ![c] = Some(outcome)]
    /\ IF DisconnectsAfter(outcome)
       THEN /\ disconnects' = [disconnects EXCEPT ![c] = @ + 1]
            /\ conn' = [conn EXCEPT ![c] = "closed"]
       ELSE UNCHANGED <<disconnects, conn>>
    /\ IF OnErrorCatches(outcome)
       THEN /\ wcPc' = [wcPc EXCEPT ![c] = "onError"]
            /\ UNCHANGED wcResult
       ELSE /\ wcPc' = [wcPc EXCEPT ![c] = "settled"]
            /\ wcResult' = [wcResult EXCEPT ![c] = Some(outcome)]
    /\ UNCHANGED <<hostVars, c2s, s2c, connPromise, responseCallback, calls,
                   handlerFailures, onErrorOutcome>>

OnErrorOutcomes == {Fulfilled(Undefined), Rejected(ErrorValue(<<"onError failed">>))}

\* return onError(e): the promise of onError settles and withClient
\* settles the same way.
OnErrorSettle(c, outcome) ==
    /\ wcPc[c] = "onError"
    /\ outcome \in OnErrorOutcomes
    /\ onErrorOutcome' = [onErrorOutcome EXCEPT ![c] = Some(outcome)]
    /\ wcResult' = [wcResult EXCEPT ![c] = Some(outcome)]
    /\ wcPc' = [wcPc EXCEPT ![c] = "settled"]
    /\ UNCHANGED <<hostVars, channelVars, connPromise, responseCallback, calls,
                   disconnects, handlerFailures, onSuccessOutcome>>

(* --------------------------- specification ----------------------------- *)

Next ==
    \/ PluginInit
    \/ \E p \in Projects : PluginCreate(p)
    \/ ServerStarted
    \/ \E c \in Clients : ServerHandle(c)
    \/ \E c \in Clients : WithClientStart(c)
    \/ \E c \in Clients : SocketConnect(c)
    \/ \E c \in Clients : SocketError(c)
    \/ \E c \in Clients, payload \in Payloads : ClientCall(c, payload)
    \/ \E c \in Clients : ClientRespond(c)
    \/ \E c \in Clients : \E outcome \in OnSuccessOutcomes(c) : OnSuccessSettle(c, outcome)
    \/ \E c \in Clients, outcome \in OnErrorOutcomes : OnErrorSettle(c, outcome)

Spec == Init /\ [][Next]_vars

(* ---------------------- one client and the host ------------------------ *)

OneClient == "c1"

OneClientNext ==
    \/ PluginInit
    \/ \E p \in Projects : PluginCreate(p)
    \/ ServerStarted
    \/ ServerHandle(OneClient)
    \/ WithClientStart(OneClient)
    \/ SocketConnect(OneClient)
    \/ SocketError(OneClient)
    \/ \E payload \in Payloads : ClientCall(OneClient, payload)
    \/ ClientRespond(OneClient)
    \/ \E outcome \in OnSuccessOutcomes(OneClient) : OnSuccessSettle(OneClient, outcome)
    \/ \E outcome \in OnErrorOutcomes : OnErrorSettle(OneClient, outcome)

OneClientSpec == Init /\ [][OneClientNext]_vars

(* ----------------------- the host process alone ------------------------ *)
(* The host with any client of the protocol: call frames of any payload,   *)
(* a frame without data included, arrive on the connections the server has *)
(* accepted.                                                               *)

\* The data of the frames that arrive: what this repository's client sends,
\* and no data.
FrameData == Payloads \cup {NullData}

FramesArrived ==
    hostFailures
      + Len(c2s["c1"]) + Len(served["c1"])
      + Len(c2s["c2"]) + Len(served["c2"])

\* A 'call' frame arrives on a connection of the listening server.
FrameArrives(socket, data) ==
    /\ Listening
    /\ FramesArrived < MaxFrames
    /\ c2s' = [c2s EXCEPT ![socket] = Append(@, data)]
    /\ UNCHANGED <<hostVars, s2c, conn, clientVars>>

HostNext ==
    \/ PluginInit
    \/ \E p \in Projects : PluginCreate(p)
    \/ ServerStarted
    \/ \E socket \in Clients, data \in FrameData : FrameArrives(socket, data)
    \/ \E socket \in Clients : ServerHandle(socket)

HostSpec == Init /\ [][HostNext]_vars

(* -------------------- the registry behind the server ------------------- *)
(* The host with one connection, on which requests of the two public       *)
(* methods arrive for file lists of every shape: empty, one file, two      *)
(* files, claimed by no project, by one or by two.                         *)

\* The absolute paths callers ask about: "/a.ts" is in pA only,
\* "/shared.ts" in pA and pB, "/nowhere.ts" in no project.
QueryFiles == {"/a.ts", "/shared.ts", "/nowhere.ts"}

QueryFileLists ==
    {<<>>} \cup {<<f>> : f \in QueryFiles}
           \cup {<<f, g>> : f \in QueryFiles, g \in QueryFiles}

QueryPayloads ==
    {getAllErrorsPayload} \cup {getErrorsForFilesPayload(fs) : fs \in QueryFileLists}

\* A 'call' frame of a public method arrives on the connection.
QueryArrives(data) ==
    /\ Listening
    /\ FramesArrived < MaxQueries
    /\ c2s' = [c2s EXCEPT ![OneClient] = Append(@, data)]
    /\ UNCHANGED <<hostVars, s2c, conn, clientVars>>

RegistryNext ==
    \/ PluginInit
    \/ \E p \in Projects : PluginCreate(p)
    \/ ServerStarted
    \/ \E data \in QueryPayloads : QueryArrives(data)
    \/ ServerHandle(OneClient)

RegistrySpec == Init /\ [][RegistryNext]_vars

\* The code's scheduling: the host's event loop handles a received frame,
\* and the client's event loop handles a received response.
Fairness ==
    /\ \A c \in Clients : WF_vars(ServerHandle(c))
    /\ \A c \in Clients : WF_vars(ClientRespond(c))

FairSpec == Spec /\ Fairness

(* ------------------------- observations -------------------------------- *)

CallIndices(c) == 1..Len(calls[c])

\* Call frames emitted by client c so far.
FramesSent(c) == Cardinality({k \in CallIndices(c) : calls[c][k].sent})

\* Respond frames the client's handler has received so far.
RespondsReceived(c) ==
    Cardinality({k \in CallIndices(c) : calls[c][k].sent /\ calls[c][k].state # "awaiting"})
      + handlerFailures[c]

InFlight(c) == FramesSent(c) - RespondsReceived(c)

\* The position, among the frames of client c, of the frame of call k.
FrameIndex(c, k) == Cardinality({j \in 1..k : calls[c][j].sent})

\* Call k of client c, if it has completed on a response, completed on the
\* server's response to its own request frame.
OwnResponse(c, k) ==
    (calls[c][k].sent /\ calls[c][k].state # "awaiting") =>
        /\ FrameIndex(c, k) <= Len(served[c])
        /\ served[c][FrameIndex(c, k)].request = calls[c][k].payload
        /\ calls[c][k].result \in
             { served[c][FrameIndex(c, k)].response,
               CallError(served[c][FrameIndex(c, k)].response) }

\* In this step a call is issued on c while an earlier one awaits its response.
CallWhilePending(c) ==
    /\ Len(calls'[c]) = Len(calls[c]) + 1
    /\ responseCallback[c] # 0

\* In this step the server takes a call frame from connection c.
ServerTakes(c) == Len(c2s'[c]) < Len(c2s[c])

OnSuccessInvoked(c) == wcPc[c] = "onSuccess" \/ onSuccessOutcome[c] # Null
OnErrorInvoked(c) == wcPc[c] = "onError" \/ onErrorOutcome[c] # Null

(* ------------------------------ claims --------------------------------- *)

\* C1: at most one request is in flight per client: frames sent minus
\* responses received is 0 or 1, and the pending-response slot is set
\* exactly when it is 1.
C1_OneInFlight ==
    \A c \in Clients :
        /\ InFlight(c) \in {0, 1}
        /\ (responseCallback[c] # 0) <=> (InFlight(c) = 1)

\* A client is idle again after a response and has a second call in flight.
C1_Witness ==
    \E c \in Clients :
        /\ Len(calls[c]) = 2
        /\ calls[c][1].state = "returned"
        /\ calls[c][2].state = "awaiting"
        /\ InFlight(c) = 1

\* C2: a call issued while an earlier call awaits its response raises the
\* misuse failure, emits no frame and leaves the slot and the earlier calls
\* as they were; the earlier call still completes on its own response.
C2_MisuseSendsNothing ==
    [][\A c \in Clients :
         /\ CallWhilePending(c) =>
              /\ calls'[c] = Append(calls[c],
                                    CallRecord(calls'[c][Len(calls'[c])].payload,
                                               FALSE, "raised", MisuseError))
              /\ UNCHANGED <<c2s, s2c, responseCallback>>
         /\ \A k \in 1..Len(calls'[c]) :
              (\E j \in 1..Len(calls'[c]) : ~calls'[c][j].sent) => OwnResponse(c, k)'
      ]_vars

\* A second call was refused while the first was pending, and the first
\* then returned the server's response.
C2_Witness ==
    \E c \in Clients :
        /\ Len(calls[c]) = 2
        /\ ~calls[c][2].sent
        /\ calls[c][2].result = MisuseError
        /\ calls[c][1].state = "returned"
        /\ Len(served[c]) = 1

\* C3: every call that completes on a response completes on the server's
\* response to its own request frame, and a frame is on the channel only
\* while the slot is set.
C3_OwnResponse ==
    \A c \in Clients :
        /\ \A k \in CallIndices(c) : OwnResponse(c, k)
        /\ (c2s[c] # <<>> \/ s2c[c] # <<>>) => responseCallback[c] # 0

\* Two calls on one client completed on different responses to the same
\* request, each its own.
C3_Witness ==
    \E c \in Clients :
        /\ Len(calls[c]) = 2
        /\ calls[c][1].state = "returned"
        /\ calls[c][2].state = "returned"
        /\ calls[c][1].payload = calls[c][2].payload
        /\ calls[c][1].result # calls[c][2].result

\* C4: when connect succeeded, withClient disconnects exactly once, after
\* onSuccess has completed or failed and not later than it settles with the
\* outcome of onSuccess.
C4_DisconnectOnce ==
    \A c \in Clients :
        /\ disconnects[c] <= 1
        /\ disconnects[c] = 1 => onSuccessOutcome[c] # Null
        /\ (connPromise[c] = "resolved" /\ onSuccessOutcome[c] # Null) =>
               /\ disconnects[c] = 1
               /\ conn[c] = "closed"
        /\ (connPromise[c] = "resolved" /\ wcResult[c] # Null) =>
               /\ disconnects[c] = 1
               /\ wcResult[c] = onSuccessOutcome[c]

\* onSuccess raised, the connection was disconnected and the failure was
\* delivered.
C4_Witness ==
    \E c \in Clients :
        /\ onSuccessOutcome[c] # Null
        /\ onSuccessOutcome[c][1].kind = "rejected"
        /\ disconnects[c] = 1
        /\ wcResult[c] = onSuccessOutcome[c]

\* C5: onError is invoked exactly when connect failed, and then onSuccess is
\* not invoked, no call is made and withClient settles as onError did; a
\* failure of onSuccess propagates and does not invoke onError; a settled
\* run invoked exactly one of the two.
C5_ExactlyOneCallback ==
    \A c \in Clients :
        /\ ~(OnSuccessInvoked(c) /\ OnErrorInvoked(c))
        /\ OnErrorInvoked(c) <=> connPromise[c] = "rejected"
        /\ OnSuccessInvoked(c) <=> connPromise[c] = "resolved"
        /\ OnErrorInvoked(c) => calls[c] = <<>> /\ c2s[c] = <<>>
        /\ wcPc[c] = "settled" =>
               /\ OnSuccessInvoked(c) \/ OnErrorInvoked(c)
               /\ OnErrorInvoked(c) => wcResult[c] = onErrorOutcome[c]
               /\ OnSuccessInvoked(c) => wcResult[c] = onSuccessOutcome[c]

\* onSuccess failed with the failure of a call, the failure reached the
\* caller and onError was not invoked.
C5_Witness ==
    \E c \in Clients :
        /\ wcPc[c] = "settled"
        /\ onSuccessOutcome[c] # Null
        /\ onSuccessOutcome[c][1].kind = "rejected"
        /\ \E k \in CallIndices(c) :
              calls[c][k].sent /\ onSuccessOutcome[c][1].value = calls[c][k].result
        /\ wcResult[c] = onSuccessOutcome[c]
        /\ ~OnErrorInvoked(c)

\* The response the server gave to the frame of call k.
ResponseOf(c, k) == served[c][FrameIndex(c, k)].response

CompletedOnResponse(c, k) == calls[c][k].sent /\ calls[c][k].state # "awaiting"

\* C6 as stated: a string response makes the call fail with that string as
\* the reason; any other response is returned.
C6_StringIsTheReason ==
    \A c \in Clients : \A k \in CallIndices(c) :
        CompletedOnResponse(c, k) =>
            IF ResponseOf(c, k).kind = "string"
            THEN /\ calls[c][k].state = "raised"
                 /\ calls[c][k].result.text = ResponseOf(c, k).text
            ELSE /\ calls[c][k].state = "returned"
                 /\ calls[c][k].result = ResponseOf(c, k)

\* C6 (amended): a string response makes the call fail with the reason
\* "Error from TS language service: " followed by that string; any other
\* response, an empty array included, is returned as the result.
C6_StringFailsWithPrefix ==
    \A c \in Clients : \A k \in CallIndices(c) :
        CompletedOnResponse(c, k) =>
            IF ResponseOf(c, k).kind = "string"
            THEN /\ calls[c][k].state = "raised"
                 /\ calls[c][k].result.kind = "error"
                 /\ calls[c][k].result.text =
                      <<"Error from TS language service: ">> \o ResponseOf(c, k).text
            ELSE /\ calls[c][k].state = "returned"
                 /\ calls[c][k].result = ResponseOf(c, k)

\* One call failed on a string response and another returned an empty array.
C6_Witness ==
    \E c \in Clients, d \in Clients :
      \E k \in CallIndices(c), j \in CallIndices(d) :
        /\ CompletedOnResponse(c, k)
        /\ ResponseOf(c, k).kind = "string"
        /\ calls[c][k].state = "raised"
        /\ CompletedOnResponse(d, j)
        /\ calls[d][j].state = "returned"
        /\ calls[d][j].result = ArrayValue(<<>>)

\* C7: under fair scheduling no call stays pending forever: a call sent on
\* a connected client whose onSuccess is still running (so withClient has
\* not disconnected) gets its response, or the caller is released.
C7_NoCallPendingForever ==
    \A c \in Clients : \A k \in 1..MaxCalls :
        (/\ k <= Len(calls[c])
         /\ calls[c][k].state = "awaiting"
         /\ conn[c] = "connected"
         /\ wcPc[c] = "onSuccess")
          ~> (/\ k <= Len(calls[c])
              /\ calls[c][k].state # "awaiting" \/ wcPc[c] # "onSuccess")

\* C8: each call frame the server takes from a connection is answered by
\* exactly one respond frame, written to that connection and to no other,
\* and one step handles one frame.
C8_OneResponseSameConnection ==
    [][\A c \in Clients :
         ServerTakes(c) =>
            /\ c2s'[c] = Tail(c2s[c])
            /\ Len(s2c'[c]) = Len(s2c[c]) + 1
            /\ SubSeq(s2c'[c], 1, Len(s2c[c])) = s2c[c]
            /\ \A d \in Clients \ {c} : s2c'[d] = s2c[d] /\ c2s'[d] = c2s[d]
      ]_vars

\* Requests of two clients were in flight together and each connection
\* holds the answer to its own request.
C8_Witness ==
    /\ \A c \in Clients :
          /\ Len(served[c]) = 1
          /\ Len(s2c[c]) = 1
          /\ s2c[c][1] = served[c][1].response
    /\ s2c["c1"][1] # s2c["c2"][1]

\* C9: a request that names an unrecognized method, or whose registry
\* operation raises, is answered with a string; its failure does not escape
\* the handler, and the server goes on listening (a frame without data
\* names no method and reaches no registry operation: it is not among these
\* requests).
C9_FailuresBecomeStrings ==
    [][\A c \in Clients :
         ServerTakes(c) =>
            LET data == Head(c2s[c])
                r == Dispatch(data, projectCheckers)
            IN /\ (/\ data.kind = "object"
                   /\ data.method \notin {"getAllErrors", "getErrorsForFiles"} \/ r.threw) =>
                     /\ Len(s2c'[c]) = Len(s2c[c]) + 1
                     /\ s2c'[c][Len(s2c'[c])].kind = "string"
                     /\ hostFailures' = hostFailures
               /\ Listening'
      ]_vars

\* On one connection a request whose operation raised and a request with an
\* unknown method were answered with strings, in two steps.
C9_Witness ==
    \E c \in Clients :
        /\ Len(served[c]) = 2
        /\ served[c][1].request = Payload("getErrorsForFiles", Null)
        /\ served[c][1].response.kind = "string"
        /\ served[c][2].request.method = "getEverything"
        /\ served[c][2].response.kind = "string"

\* C10: setupIPC runs at most once: only the first init starts a server, and
\* every later init and every create leaves the transport alone, a create
\* appending one checker to the registry.
C10_OneServer ==
    /\ [](servers <= 1 /\ (inits > 0 => servers = 1))
    /\ [][/\ servers' # servers => (servers = 0 /\ inits = 0)
          /\ projectCheckers' # projectCheckers =>
                /\ \E p \in Projects : projectCheckers' = Append(projectCheckers, p)
                /\ UNCHANGED <<servers, isIPCSetUp, channelVars>>
       ]_vars

\* Two projects were activated and one server runs.
C10_Witness ==
    /\ inits = 2
    /\ Len(projectCheckers) = 2
    /\ servers = 1

\* C11 as stated: the server starts listening at the first project
\* registration: it is not listening while no project is registered, and it
\* is listening from the first registration on.
C11_ListensAtFirstRegistration ==
    /\ projectCheckers = <<>> => ~Listening
    /\ projectCheckers # <<>> => Listening

\* C11 (amended): the server is created by the first init(), the plugin
\* activation that precedes the first registration, and begins to listen
\* some time after it was created.  Before the first init() there is no
\* server and nothing listens; from the first init() on there is exactly
\* the one server, created while no project was registered; it listens
\* only once created, and once it listens it listens in every later state.
C11_ListensAfterFirstInit ==
    /\ [](/\ inits = 0 => (servers = 0 /\ ~Listening /\ projectCheckers = <<>>)
          /\ inits > 0 => servers = 1
          /\ Listening => servers = 1)
    /\ [][/\ servers' # servers => (inits = 0 /\ projectCheckers = <<>>)
          /\ Listening => Listening'
          /\ Listening' # Listening => UNCHANGED <<servers, inits, projectCheckers>>
       ]_vars

\* The first activation has created the server and registered its project,
\* and the server does not listen yet.
C11_Witness ==
    /\ servers = 1
    /\ inits = 1
    /\ Len(projectCheckers) = 1
    /\ ~Listening

(* ----------------- observations of the registry's answers -------------- *)

RECURSIVE Concat(_)
Concat(seqs) == IF seqs = <<>> THEN <<>> ELSE Head(seqs) \o Concat(Tail(seqs))

\* The respond frame written last to connection c.
LastResponse(c) == s2c[c][Len(s2c[c])]

\* In this step the server handles a getErrorsForFiles request for a list
\* of files.
HandlesFiles(c) ==
    /\ ServerTakes(c)
    /\ Head(c2s[c]).method = "getErrorsForFiles"
    /\ Head(c2s[c]).filenames # Null

RequestedFiles(c) == Head(c2s[c]).filenames[1]

Claimed(checkers, f) == \E i \in 1..Len(checkers) : fileInProject(checkers[i], f)

\* What the checkers that claim f report for it, checker by checker in
\* registration order.
ClaimedResults(checkers, f) ==
    Concat([i \in 1..Len(checkers) |->
              IF fileInProject(checkers[i], f)
              THEN CheckerGetErrorsForFile(checkers[i], f).value
              ELSE <<>>])

Codes(items) == [i \in 1..Len(items) |-> items[i].code]

\* C12: a getErrorsForFiles request for files that are each claimed by some
\* registered checker is answered with, file by file in request order, the
\* getErrorsForFile results of every checker that claims the file, in
\* registration order, and with no synthesized entry.
C12_AllClaimingCheckersInOrder ==
    [][\A c \in Clients :
         (HandlesFiles(c) /\ \A i \in 1..Len(RequestedFiles(c)) :
                                Claimed(projectCheckers, RequestedFiles(c)[i])) =>
            /\ LastResponse(c)'.kind = "array"
            /\ LastResponse(c)'.items =
                  Concat([i \in 1..Len(RequestedFiles(c)) |->
                            ClaimedResults(projectCheckers, RequestedFiles(c)[i])])
            /\ \A i \in 1..Len(LastResponse(c)'.items) :
                  LastResponse(c)'.items[i].code # 20000
      ]_vars

\* With pB registered before pA, a request for the file they share and then
\* a file of pA alone was answered with pB's two issues for the shared file,
\* pA's issue for it, and pA's issue for its own file.
C12_Witness ==
    \E c \in Clients :
        /\ Len(served[c]) = 1
        /\ served[c][1].request = getErrorsForFilesPayload(<<"/shared.ts", "/a.ts">>)
        /\ Codes(served[c][1].response.items) = <<7006, 1005, 2345, 2322>>

\* The number of entries file f contributes to an answer.
ContributionLen(checkers, f) ==
    IF Claimed(checkers, f) THEN Len(ClaimedResults(checkers, f)) ELSE 1

\* The number of entries the first n files of a request contribute.
RECURSIVE EntriesOfFirst(_, _, _)
EntriesOfFirst(checkers, files, n) ==
    IF n = 0 THEN 0
    ELSE EntriesOfFirst(checkers, files, n - 1) + ContributionLen(checkers, files[n])

\* The entry synthesized for a file that is in no project.
IsSynthesizedFor(item, f) ==
    /\ item.filePath = Some(f)
    /\ item.start = Null
    /\ item.end = Null
    /\ item.code = 20000
    /\ \E j \in 1..Len(item.message) : item.message[j] = f

\* C13: a getErrorsForFiles request is answered with an array also when a
\* requested file is claimed by no registered checker, the registry being
\* empty or not; each request of such a file F contributes, at its place in
\* request order, exactly one entry: filePath F, no start, no end, code
\* 20000 and a message containing F.
C13_UnclaimedFileSynthesized ==
    [][\A c \in Clients :
         HandlesFiles(c) =>
           LET files == RequestedFiles(c)
               unclaimed == {i \in 1..Len(files) : ~Claimed(projectCheckers, files[i])}
               answer == LastResponse(c)'
           IN unclaimed # {} =>
                /\ answer.kind = "array"
                /\ Len(answer.items) = EntriesOfFirst(projectCheckers, files, Len(files))
                /\ \A i \in unclaimed :
                      /\ IsSynthesizedFor(
                            answer.items[EntriesOfFirst(projectCheckers, files, i)],
                            files[i])
                      /\ Cardinality({k \in 1..Len(answer.items) :
                                        IsSynthesizedFor(answer.items[k], files[i])})
                           = Cardinality({j \in unclaimed : files[j] = files[i]})
      ]_vars

\* The server, with no project registered, answered a request for one file
\* with the single synthesized entry for it.
C13_Witness ==
    \E c \in Clients :
        /\ projectCheckers = <<>>
        /\ Len(served[c]) = 1
        /\ served[c][1].request = getErrorsForFilesPayload(<<"/a.ts">>)
        /\ served[c][1].response.kind = "array"
        /\ Len(served[c][1].response.items) = 1
        /\ IsSynthesizedFor(served[c][1].response.items[1], "/a.ts")

\* In this step the server handles a getAllErrors request.
HandlesAll(c) ==
    /\ ServerTakes(c)
    /\ Head(c2s[c]).method = "getAllErrors"

\* C14: a getAllErrors request is answered with the getAllErrors results of
\* the checkers registered when it is handled, one checker after the other
\* in registration order, every entry kept at its place (nothing merged,
\* sorted or dropped), a checker registered twice reported twice.
C14_AllErrorsConcatenated ==
    [][\A c \in Clients :
         HandlesAll(c) =>
           LET answer == LastResponse(c)'
               before(i) == Len(Concat([j \in 1..(i - 1) |->
                                  CheckerGetAllErrors(projectCheckers[j]).value]))
           IN /\ answer.kind = "array"
              /\ Len(answer.items) = before(Len(projectCheckers) + 1)
              /\ \A i \in 1..Len(projectCheckers) :
                    LET own == CheckerGetAllErrors(projectCheckers[i]).value
                    IN SubSeq(answer.items, before(i) + 1, before(i) + Len(own)) = own
      ]_vars

\* Project pA was registered twice and a getAllErrors request was answered
\* with its three issues twice over.
C14_Witness ==
    \E c \in Clients :
        /\ projectCheckers = <<"pA", "pA">>
        /\ Len(served[c]) = 1
        /\ served[c][1].request = getAllErrorsPayload
        /\ Codes(served[c][1].response.items) = <<2322, 2345, 2318, 2322, 2345, 2318>>

IsPrefix(s, t) == Len(s) <= Len(t) /\ SubSeq(t, 1, Len(s)) = s

\* C15: the registry's sequence only grows at its end: every step leaves
\* the earlier sequence a prefix of the later one; a step that changes it
\* is a registration, which appends exactly one checker and touches nothing
\* else of the host or the channel; handling a request of either method
\* leaves it unchanged.
C15_RegistryOnlyAppended ==
    [][/\ IsPrefix(projectCheckers, projectCheckers')
       /\ Len(projectCheckers') <= Len(projectCheckers) + 1
       /\ projectCheckers' # projectCheckers =>
             UNCHANGED <<isIPCSetUp, servers, serverListening, inits, hostFailures,
                         served, channelVars>>
       /\ \A c \in Clients :
             (HandlesAll(c) \/ HandlesFiles(c) \/ ServerTakes(c)) =>
                 UNCHANGED projectCheckers
      ]_vars

\* A getAllErrors request was answered with the issues of the one project
\* registered then, and a different project was registered after it.
C15_Witness ==
    \E c \in Clients :
        /\ Len(projectCheckers) = 2
        /\ projectCheckers[1] # projectCheckers[2]
        /\ Len(served[c]) = 1
        /\ served[c][1].request = getAllErrorsPayload
        /\ served[c][1].response.items # <<>>
        /\ served[c][1].response.items = CheckerGetAllErrors(projectCheckers[1]).value
        /\ CheckerGetAllErrors(projectCheckers[2]).value # <<>>

\* The entries of the answers the server has given.
ServedEntries ==
    UNION { UNION { { served[c][k].response.items[i] :
                        i \in 1..Len(served[c][k].response.items) } :
                    k \in 1..Len(served[c]) } :
            c \in Clients }

\* The raw issues the engine reports for project p.
RawIssues(p) ==
    LET ds == SemanticDiagnosticsOf(p) \o SyntacticDiagnosticsOf(p)
    IN {ds[i] : i \in 1..Len(ds)}

RegisteredProjects == {projectCheckers[i] : i \in 1..Len(projectCheckers)}

\* C16: every entry the server has answered with has, if it has a start,
\* an end that is not before the start; the normalizer gives a raw issue
\* that has a start that start and the end start + length; and it leaves
\* start and end both absent only for a raw issue that has neither a start
\* nor a length.
C16_StartImpliesEnd ==
    /\ \A e \in ServedEntries :
          e.start # Null => (e.end # Null /\ e.end[1] >= e.start[1])
    /\ \A p \in RegisteredProjects : \A d \in RawIssues(p) :
          LET e == convertToSimpleDiagnostic(d)
          IN /\ (d.start # Null /\ d.length # Null) =>
                   (e.start = d.start /\ e.end = Some(d.start[1] + d.length[1]))
             /\ e.start # Null => (e.end # Null /\ e.end[1] >= e.start[1])
             /\ (e.start = Null /\ e.end = Null) => (d.start = Null /\ d.length = Null)

\* The server answered with an entry from offset 3 to 7, an empty range at
\* offset 0 and an entry without offsets.
C16_Witness ==
    /\ \E e \in ServedEntries : e.start = Some(3) /\ e.end = Some(7)
    /\ \E e \in ServedEntries : e.start = Some(0) /\ e.end = Some(0)
    /\ \E e \in ServedEntries : e.start = Null /\ e.end = Null /\ e.code # 20000

\* C17: the normalizer gives a raw issue without a file no filePath, no
\* start and no end; and every entry the server has answered with that has
\* no filePath has no start and no end.
C17_NoFileNoLocation ==
    /\ \A e \in ServedEntries :
          e.filePath = Null => (e.start = Null /\ e.end = Null)
    /\ \A p \in RegisteredProjects : \A d \in RawIssues(p) :
          d.file = Null =>
             LET e == convertToSimpleDiagnostic(d)
             IN e.filePath = Null /\ e.start = Null /\ e.end = Null

\* The server answered with the entry of pA's issue that has no file:
\* code 2318, no filePath, no start, no end.
C17_Witness ==
    \E e \in ServedEntries :
        /\ e.code = 2318
        /\ e.filePath = Null
        /\ e.start = Null
        /\ e.end = Null

\* The checkers of a registry whose analysis state is available.
Available(checkers) == SelectSeq(checkers, HasProgram)

\* C18: a request of a public method is answered with an array whatever
\* checkers are registered: a checker whose program is unavailable adds
\* nothing to getAllErrors and claims no file, so the answer is the one the
\* registry without it gives, and the per-file query, which fails for a
\* file a checker does not have, is never made on such a checker.
C18_UnavailableCheckersAreSkipped ==
    [][\A c \in Clients :
         (HandlesAll(c) \/ HandlesFiles(c)) =>
            /\ LastResponse(c)'.kind = "array"
            /\ Ok(LastResponse(c)') = Dispatch(Head(c2s[c]), Available(projectCheckers))
            /\ \A p \in RegisteredProjects :
                  ~HasProgram(p) =>
                     /\ CheckerGetAllErrors(p) = Ok(<<>>)
                     /\ \A f \in QueryFiles : ~fileInProject(p, f)
      ]_vars

\* With the unavailable project registered before pA, a request for a file
\* of pA was answered with pA's issue for it.
C18_Witness ==
    \E c \in Clients :
        /\ Len(projectCheckers) = 2
        /\ projectCheckers[1] = "pGone"
        /\ Len(served[c]) = 1
        /\ served[c][1].request = getErrorsForFilesPayload(<<"/a.ts">>)
        /\ Codes(served[c][1].response.items) = <<2322>>

\* C19: getErrorsForFiles treats each path on its own.  For every registry
\* that registrations build (each is reached before the first request
\* arrives) and all path lists A and B, the result for A followed by B is
\* the result for A followed by the result for B, and the result for the
\* empty list is empty; and the answer the server gives to a request is,
\* for every way of cutting the requested list in two, the results for the
\* two parts one after the other, so a file in no project neither fails the
\* batch nor removes what the other files get.
C19_PerFileIndependent ==
    /\ [](FramesArrived = 0 =>
          /\ getErrorsForFiles(projectCheckers, Some(<<>>)) = Ok(<<>>)
          /\ \A A \in QueryFileLists, B \in QueryFileLists :
                LET whole == getErrorsForFiles(projectCheckers, Some(A \o B))
                    first == getErrorsForFiles(projectCheckers, Some(A))
                    second == getErrorsForFiles(projectCheckers, Some(B))
                IN /\ ~whole.threw /\ ~first.threw /\ ~second.threw
                   /\ whole.value = first.value \o second.value)
    /\ [][\A c \in Clients :
            HandlesFiles(c) =>
              LET files == RequestedFiles(c)
              IN /\ LastResponse(c)'.kind = "array"
                 /\ \A n \in 0..Len(files) :
                       LastResponse(c)'.items =
                         getErrorsForFiles(projectCheckers,
                                           Some(SubSeq(files, 1, n))).value
                           \o getErrorsForFiles(projectCheckers,
                                                Some(SubSeq(files, n + 1, Len(files)))).value
         ]_vars

\* With pA registered, a request for a file in no project and then a file
\* of pA was answered with the synthesized entry and then pA's issue; and a
\* request for no files at all is answered with an empty array.
C19_Witness ==
    \E c \in Clients :
        /\ projectCheckers # <<>>
        /\ Len(served[c]) = 1
        /\ served[c][1].request = getErrorsForFilesPayload(<<"/nowhere.ts", "/a.ts">>)
        /\ Codes(served[c][1].response.items) = <<20000, 2322>>
        /\ CallHandler(getErrorsForFilesPayload(<<>>), projectCheckers).response
              = Some(ArrayValue(<<>>))

\* In this step the client's RESPOND_EVENT handler takes a frame.
ClientTakes(c) == Len(s2c'[c]) < Len(s2c[c])

\* C20: the client's RESPOND_EVENT handler never finds the slot empty.  A
\* respond frame is on its way to a client only while the slot holds the
\* resolver of a call that is still awaiting, and at most one is; the
\* handler never raises 'Expected response callback to be set'; and the
\* step that delivers a response to a call leaves the slot cleared, so the
\* slot never holds the resolver of a completed call.
C20_ResponseFindsPendingCall ==
    /\ [](\A c \in Clients :
            /\ handlerFailures[c] = 0
            /\ s2c[c] # <<>> => (responseCallback[c] # 0 /\ Len(s2c[c]) = 1)
            /\ responseCallback[c] # 0 =>
                  /\ responseCallback[c] \in CallIndices(c)
                  /\ calls[c][responseCallback[c]].state = "awaiting")
    /\ [][\A c \in Clients :
            ClientTakes(c) =>
              /\ responseCallback[c] # 0
              /\ responseCallback'[c] = 0
              /\ calls'[c][responseCallback[c]].state # "awaiting"
         ]_vars

\* A client made two calls one after the other; one returned and one failed
\* on a string response, both responses found their call pending, and the
\* slot is empty again.
C20_Witness ==
    \E c \in Clients :
        /\ Len(calls[c]) = 2
        /\ calls[c][1].sent /\ calls[c][2].sent
        /\ {calls[c][1].state, calls[c][2].state} = {"returned", "raised"}
        /\ Len(served[c]) = 2
        /\ responseCallback[c] = 0
        /\ handlerFailures[c] = 0
        /\ s2c[c] = <<>>

====
